---- MODULE Spec2Model ----
(***************************************************************************)
(* Model of cloud/amazon/elastictranscoder.py: the Ansible module that     *)
(* reconciles one AWS Elastic Transcoder pipeline (state present/absent).  *)
(*                                                                         *)
(* One module run is one process: main() dispatches on `state` to          *)
(* create_et_pipeline or delete_et_pipeline; every remote call of boto's   *)
(* connection is one step, so that runs of two processes can interleave.   *)
(* The remote service is a list of pipelines plus an id counter.           *)
(*                                                                         *)
(* Python values: None is the empty tuple, any other optional value x is   *)
(* the one-element tuple <<x>>.  A str is a tuple of one-character         *)
(* strings where its characters matter (notification keys), a TLA+ string  *)
(* otherwise.  A dict given by the caller is the tuple of its (key, value) *)
(* items in the order iteritems() yields them; a dict built by the module  *)
(* is a function from its keys to their values.                            *)
(***************************************************************************)
EXTENDS Naturals, Sequences, FiniteSets

VARIABLES remote, nextId, pc, params, pipeline, result, calls, remote0, prev, runs

vars == <<remote, nextId, pc, params, pipeline, result, calls, remote0, prev, runs>>

----------------------------------------------------------------------------
(* Bounds of the model *)

\* most pipelines the remote account holds before the first run
MaxRemote == 2

\* most runs of the module one process makes
MaxRuns == 2

\* the module processes; Spec runs the first alone, SpecConc both
Procs == {1, 2}

----------------------------------------------------------------------------
(* Python values *)

None == <<>>

Some(x) == <<x>>

Lower == <<"a","b","c","d","e","f","g","h","i","j","k","l","m",
           "n","o","p","q","r","s","t","u","v","w","x","y","z">>

Upper == <<"A","B","C","D","E","F","G","H","I","J","K","L","M",
           "N","O","P","Q","R","S","T","U","V","W","X","Y","Z">>

IsLower(c) == \E i \in 1..Len(Lower) : Lower[i] = c

IsUpper(c) == \E i \in 1..Len(Upper) : Upper[i] = c

IsCased(c) == IsLower(c) \/ IsUpper(c)

\* str.upper() of one character
ToUpper(c) == IF IsLower(c) THEN Upper[CHOOSE i \in 1..Len(Lower) : Lower[i] = c] ELSE c

\* str.lower() of one character
ToLower(c) == IF IsUpper(c) THEN Lower[CHOOSE i \in 1..Len(Upper) : Upper[i] = c] ELSE c

\* str.title(): a cased character is upper-cased when the character before it
\* is uncased (or there is none) and lower-cased when it follows a cased one
title(s) ==
    [i \in 1..Len(s) |->
        IF i > 1 /\ IsCased(s[i-1]) THEN ToLower(s[i]) ELSE ToUpper(s[i])]

\* new_dictionary = {}
EmptyDict == [x \in {} |-> ""]

\* new_dictionary after the loop body ran for the first n items:
\* a later item overwrites an earlier one with the same title()d key
RECURSIVE FixUpDict(_, _)
FixUpDict(items, n) ==
    IF n = 0 THEN EmptyDict
    ELSE LET d == FixUpDict(items, n - 1)
             k == title(items[n][1])
         IN  [x \in (DOMAIN d) \cup {k} |-> IF x = k THEN items[n][2] ELSE d[x]]

\* variant: the items copied under their keys as given, no title()
RECURSIVE RawDict(_, _)
RawDict(items, n) ==
    IF n = 0 THEN EmptyDict
    ELSE LET d == RawDict(items, n - 1)
             k == items[n][1]
         IN  [x \in (DOMAIN d) \cup {k} |-> IF x = k THEN items[n][2] ELSE d[x]]

fix_up_notifications_dict_raw(items) == RawDict(items, Len(items))

\* variant: key.upper() in place of key.title()
RECURSIVE UpperDict(_, _)
UpperDict(items, n) ==
    IF n = 0 THEN EmptyDict
    ELSE LET d == UpperDict(items, n - 1)
             k == [i \in 1..Len(items[n][1]) |-> ToUpper(items[n][1][i])]
         IN  [x \in (DOMAIN d) \cup {k} |-> IF x = k THEN items[n][2] ELSE d[x]]

fix_up_notifications_dict_upper(items) == UpperDict(items, Len(items))

\* fix_up_notifications_dict(dictionary), for a dictionary that is not None
fix_up_notifications_dict(items) == FixUpDict(items, Len(items))

----------------------------------------------------------------------------
(* The values the runs draw their inputs from *)

kError    == <<"e","r","r","o","r">>
kErrorT   == <<"E","r","r","o","r">>
kErrorU   == <<"E","R","R","O","R">>
kWarning  == <<"w","a","r","n","i","n","g">>
kWarningT == <<"W","a","r","n","i","n","g">>

\* dicts the caller passes as `notifications`, as their items in iteration order
NotifLower   == << <<kError, "arn1">>, <<kWarning, "">> >>
NotifTitle   == << <<kWarningT, "">>, <<kErrorT, "arn1">> >>
NotifUpper   == << <<kErrorU, "arn2">>, <<kWarning, "">> >>
NotifClash   == << <<kError, "arn1">>, <<kErrorU, "arn2">>, <<kWarning, "">> >>

NotifInputs == {NotifLower, NotifTitle, NotifUpper, NotifClash}

\* the Notifications the remote pipelines start with: keys in the service's
\* own capitalisation
RemoteNotifs == { [k \in {kErrorT, kWarningT} |-> IF k = kErrorT THEN a ELSE ""]
                    : a \in {"arn1", "arn2"} }

Names == {"prod", "dev"}

Roles == {"role1", "role2"}

InputBuckets == {"in1", "in2"}

OutputBuckets == {"out1", "out2"}

\* module.params of a run with state=present; notifications may be left out
PresentParams ==
    [state : {"present"}, name : {"prod"}, input_bucket : InputBuckets,
     output_bucket : OutputBuckets, role : Roles,
     notifications : {None} \cup {Some(n) : n \in NotifInputs}]

\* module.params of a run with state=absent, which reads only the name
AbsentParams ==
    [state : {"absent"}, name : {"prod"}, input_bucket : {"in1"},
     output_bucket : {"out1"}, role : {"role1"},
     notifications : {None, Some(NotifLower)}]

Params == PresentParams \cup AbsentParams

\* a pipeline of the account before the first run, without its Id
PipelineBodies ==
    [Name : Names, Role : {"role1"}, InputBucket : {"in1"}, OutputBucket : {"out1"},
     Notifications : RemoteNotifs]

WithId(b, id) ==
    [Id |-> id, Name |-> b.Name, Role |-> b.Role, InputBucket |-> b.InputBucket,
     OutputBucket |-> b.OutputBucket, Notifications |-> b.Notifications]

\* the accounts a first run can meet: up to MaxRemote pipelines, names not unique
InitialRemotes ==
    UNION { { [i \in 1..n |-> WithId(bs[i], i)] : bs \in [1..n -> PipelineBodies] }
              : n \in 0..MaxRemote }

----------------------------------------------------------------------------
(* The remote service behind boto's connection *)

\* the message of the BotoServerError a call raises when the service fails it
ServiceError == "ServiceUnavailableException"

\* the message when the addressed pipeline does not exist
NotFoundError == "ResourceNotFoundException"

HasId(r, id) == \E i \in 1..Len(r) : r[i].Id = id

\* connection.create_pipeline: a new pipeline with a fresh Id, names not checked
RemoteCreate(r, id, name, input_bucket, output_bucket, role, notifications) ==
    Append(r, [Id |-> id, Name |-> name, Role |-> role, InputBucket |-> input_bucket,
               OutputBucket |-> output_bucket, Notifications |-> notifications])

\* connection.update_pipeline: the pipeline of that Id takes the four fields sent
RemoteUpdate(r, id, name, input_bucket, role, notifications) ==
    [i \in 1..Len(r) |->
        IF r[i].Id = id
        THEN [r[i] EXCEPT !.Name = name, !.InputBucket = input_bucket,
                          !.Role = role, !.Notifications = notifications]
        ELSE r[i]]

\* connection.delete_pipeline: the pipeline of that Id is gone
RemoteDelete(r, id) == SelectSeq(r, LAMBDA x : x.Id # id)

\* one entry of the log of remote calls a run issued
Call(op, args, ok, ret, err) ==
    [op |-> op, args |-> args, ok |-> ok, ret |-> ret, err |-> err]

----------------------------------------------------------------------------
(* The module's functions *)

\* variant: no break, the last pipeline of that Name wins
get_et_pipeline_last(pipelines, name) ==
    IF \E i \in 1..Len(pipelines) : pipelines[i].Name = name
    THEN LET last == CHOOSE i \in 1..Len(pipelines) :
                        /\ pipelines[i].Name = name
                        /\ \A j \in (i+1)..Len(pipelines) : pipelines[j].Name # name
         IN  Some(pipelines[last])
    ELSE None

\* variant: found_pipeline assigned before the test of the Name, so that a
\* listing without that Name leaves the last pipeline listed
get_et_pipeline_lastseen(pipelines, name) ==
    IF \E i \in 1..Len(pipelines) : pipelines[i].Name = name
    THEN LET first == CHOOSE i \in 1..Len(pipelines) :
                        /\ pipelines[i].Name = name
                        /\ \A j \in 1..(i-1) : pipelines[j].Name # name
         IN  Some(pipelines[first])
    ELSE IF pipelines = <<>> THEN None ELSE Some(pipelines[Len(pipelines)])

\* variant: the Name is not compared, the first pipeline listed is taken
get_et_pipeline_any(pipelines, name) ==
    IF pipelines = <<>> THEN None ELSE Some(pipelines[1])

\* the first pipeline of the listing whose Name is name, or None
get_et_pipeline(pipelines, name) ==
    IF \E i \in 1..Len(pipelines) : pipelines[i].Name = name
    THEN LET first == CHOOSE i \in 1..Len(pipelines) :
                        /\ pipelines[i].Name = name
                        /\ \A j \in 1..(i-1) : pipelines[j].Name # name
         IN  Some(pipelines[first])
    ELSE None

\* variant: OutputBucket compared as well
et_pipeline_equal_out(pl, ps) ==
    /\ pl.Role = ps.role
    /\ pl.Name = ps.name
    /\ pl.Notifications = fix_up_notifications_dict(ps.notifications[1])
    /\ pl.InputBucket = ps.input_bucket
    /\ pl.OutputBucket = ps.output_bucket

\* variant: the notifications of module.params compared as given
et_pipeline_equal_raw(pl, ps) ==
    /\ pl.Role = ps.role
    /\ pl.Name = ps.name
    /\ pl.Notifications = fix_up_notifications_dict_raw(ps.notifications[1])
    /\ pl.InputBucket = ps.input_bucket

\* variant: Role left out of both dicts
et_pipeline_equal_norole(pl, ps) ==
    /\ pl.Name = ps.name
    /\ pl.Notifications = fix_up_notifications_dict(ps.notifications[1])
    /\ pl.InputBucket = ps.input_bucket

\* pipeline_dict == module_dict; notifications is not None here
et_pipeline_equal(pl, ps) ==
    LET pipeline_dict == [Role |-> pl.Role, Name |-> pl.Name,
                          Notifications |-> pl.Notifications,
                          InputBucket |-> pl.InputBucket]
        module_dict == [Role |-> ps.role, Name |-> ps.name,
                        Notifications |-> fix_up_notifications_dict(ps.notifications[1]),
                        InputBucket |-> ps.input_bucket]
    IN  pipeline_dict = module_dict

\* what a run has reported so far
NoResult ==
    [kind |-> "none", changed |-> None, name |-> None, Id |-> None, msg |-> None]

\* module.exit_json(changed=..., name=..., Id=...); an argument not passed is None
exit_json(changed, name, id) ==
    [kind |-> "exit_json", changed |-> Some(changed), name |-> name, Id |-> id,
     msg |-> None]

\* module.fail_json(msg=str(e))
fail_json(msg) ==
    [kind |-> "fail_json", changed |-> None, name |-> None, Id |-> None,
     msg |-> Some(msg)]

\* an exception no handler catches: the run dies with a traceback naming it
Uncaught(exc) ==
    [kind |-> "traceback", changed |-> None, name |-> None, Id |-> None,
     msg |-> Some(exc)]

\* variant: changed reported as it was initialised on line 138
present_report_unchanged(changed, pl) == exit_json(FALSE, Some(pl.Name), Some(pl.Id))

\* lines 154-156: result = pipeline; exit_json(changed, name, Id) of a pipeline
\* that is not None
present_report(changed, pl) == exit_json(changed, Some(pl.Name), Some(pl.Id))

\* line 165: exit_json(changed=True, Id=...)
delete_report(pl) == exit_json(TRUE, None, Some(pl.Id))

----------------------------------------------------------------------------
(* The runs *)

Init ==
    /\ remote \in InitialRemotes
    /\ nextId = Len(remote) + 1
    /\ pc = [p \in Procs |-> "idle"]
    /\ params = [p \in Procs |-> CHOOSE ps \in AbsentParams : ps.notifications = None]
    /\ pipeline = [p \in Procs |-> None]
    /\ result = [p \in Procs |-> NoResult]
    /\ calls = [p \in Procs |-> <<>>]
    /\ remote0 = [p \in Procs |-> remote]
    /\ prev = [p \in Procs |-> None]
    /\ runs = [p \in Procs |-> 0]

\* main(): dispatch on state, lines 200-205
main(p, ps) ==
    /\ runs[p] < MaxRuns
    /\ runs' = [runs EXCEPT ![p] = @ + 1]
    /\ params' = [params EXCEPT ![p] = ps]
    /\ pc' = [pc EXCEPT ![p] = IF ps.state = "present" THEN "create_et_pipeline"
                                                      ELSE "delete_et_pipeline"]
    /\ pipeline' = [pipeline EXCEPT ![p] = None]
    /\ result' = [result EXCEPT ![p] = NoResult]
    /\ calls' = [calls EXCEPT ![p] = <<>>]
    /\ remote0' = [remote0 EXCEPT ![p] = remote]
    /\ UNCHANGED <<remote, nextId>>

\* the first run of a process, with any parameters
Start(p) ==
    /\ pc[p] = "idle"
    /\ \E ps \in Params : main(p, ps)
    /\ UNCHANGED prev

\* the same task run again: identical parameters, straight after the last run
Rerun(p) ==
    /\ pc[p] = "done"
    /\ main(p, params[p])
    /\ prev' = [prev EXCEPT ![p] = Some([params |-> params[p], result |-> result[p],
                                         calls |-> calls[p], remote0 |-> remote0[p]])]

\* create_et_pipeline up to the branch on the pipeline found: lines 131-139,
\* 146-147 and, when the pipeline is equal, 154-156
create_et_pipeline(p) ==
    /\ pc[p] = "create_et_pipeline"
    /\ \E ok \in BOOLEAN :
        LET ps == params[p]
            pl == get_et_pipeline(remote, ps.name)
        IN  IF ps.notifications = None
            THEN \* line 134: None has no iteritems
                 /\ result' = [result EXCEPT ![p] = Uncaught("AttributeError")]
                 /\ pc' = [pc EXCEPT ![p] = "done"]
                 /\ UNCHANGED <<calls, pipeline>>
            ELSE IF ~ok
            THEN \* line 137 is outside every try
                 /\ calls' = [calls EXCEPT ![p] =
                        Append(@, Call("list_pipelines", <<>>, FALSE, None, Some(ServiceError)))]
                 /\ result' = [result EXCEPT ![p] = Uncaught(ServiceError)]
                 /\ pc' = [pc EXCEPT ![p] = "done"]
                 /\ UNCHANGED pipeline
            ELSE /\ calls' = [calls EXCEPT ![p] =
                        Append(@, Call("list_pipelines", <<>>, TRUE, None, None))]
                 /\ pipeline' = [pipeline EXCEPT ![p] = pl]
                 /\ IF pl = None
                    THEN /\ pc' = [pc EXCEPT ![p] = "create_pipeline"]
                         /\ UNCHANGED result
                    ELSE IF ~et_pipeline_equal(pl[1], ps)
                    THEN /\ pc' = [pc EXCEPT ![p] = "update_pipeline"]
                         /\ UNCHANGED result
                    ELSE /\ pc' = [pc EXCEPT ![p] = "done"]
                         /\ result' = [result EXCEPT ![p] = present_report(FALSE, pl[1])]
    /\ UNCHANGED <<remote, nextId, params, remote0, prev, runs>>

\* connection.create_pipeline(...), line 141
create_pipeline(p) ==
    /\ pc[p] = "create_pipeline"
    /\ \E ok \in BOOLEAN :
        LET ps == params[p]
            notifications == fix_up_notifications_dict(ps.notifications[1])
            args == <<ps.name, ps.input_bucket, ps.output_bucket, ps.role, notifications>>
        IN  IF ok
            THEN /\ remote' = RemoteCreate(remote, nextId, ps.name, ps.input_bucket,
                                           ps.output_bucket, ps.role, notifications)
                 /\ nextId' = nextId + 1
                 /\ calls' = [calls EXCEPT ![p] =
                        Append(@, Call("create_pipeline", args, TRUE, Some(nextId), None))]
                 /\ pc' = [pc EXCEPT ![p] = "refetch"]
                 /\ UNCHANGED result
            ELSE \* lines 144-145
                 /\ calls' = [calls EXCEPT ![p] =
                        Append(@, Call("create_pipeline", args, FALSE, None, Some(ServiceError)))]
                 /\ result' = [result EXCEPT ![p] = fail_json(ServiceError)]
                 /\ pc' = [pc EXCEPT ![p] = "done"]
                 /\ UNCHANGED <<remote, nextId>>
    /\ UNCHANGED <<params, pipeline, remote0, prev, runs>>

\* the re-fetch after the create and the report: lines 142-143, 154-156
refetch(p) ==
    /\ pc[p] = "refetch"
    /\ \E ok \in BOOLEAN :
        LET pl == get_et_pipeline(remote, params[p].name)
        IN  IF ok
            THEN /\ calls' = [calls EXCEPT ![p] =
                        Append(@, Call("list_pipelines", <<>>, TRUE, None, None))]
                 /\ pipeline' = [pipeline EXCEPT ![p] = pl]
                 /\ result' = [result EXCEPT ![p] =
                        IF pl = None
                        THEN Uncaught("AttributeError")   \* line 156: result is None
                        ELSE present_report(TRUE, pl[1])]
            ELSE \* lines 144-145
                 /\ calls' = [calls EXCEPT ![p] =
                        Append(@, Call("list_pipelines", <<>>, FALSE, None, Some(ServiceError)))]
                 /\ result' = [result EXCEPT ![p] = fail_json(ServiceError)]
                 /\ UNCHANGED pipeline
    /\ pc' = [pc EXCEPT ![p] = "done"]
    /\ UNCHANGED <<remote, nextId, params, remote0, prev, runs>>

\* connection.update_pipeline(...) and the report: lines 149-152, 154-156
update_pipeline(p) ==
    /\ pc[p] = "update_pipeline"
    /\ \E ok \in BOOLEAN :
        LET ps == params[p]
            pl == pipeline[p][1]
            notifications == fix_up_notifications_dict(ps.notifications[1])
            args == <<pl.Id, ps.name, ps.input_bucket, ps.role, notifications>>
            err == IF HasId(remote, pl.Id) THEN ServiceError ELSE NotFoundError
        IN  IF ok /\ HasId(remote, pl.Id)
            THEN /\ remote' = RemoteUpdate(remote, pl.Id, ps.name, ps.input_bucket,
                                           ps.role, notifications)
                 /\ calls' = [calls EXCEPT ![p] =
                        Append(@, Call("update_pipeline", args, TRUE, None, None))]
                 /\ result' = [result EXCEPT ![p] = present_report(TRUE, pl)]
            ELSE /\ calls' = [calls EXCEPT ![p] =
                        Append(@, Call("update_pipeline", args, FALSE, None, Some(err)))]
                 /\ result' = [result EXCEPT ![p] = fail_json(err)]
                 /\ UNCHANGED remote
    /\ pc' = [pc EXCEPT ![p] = "done"]
    /\ UNCHANGED <<nextId, params, pipeline, remote0, prev, runs>>

\* delete_et_pipeline up to the branch on the pipeline found: lines 160-162, 168-169
delete_et_pipeline(p) ==
    /\ pc[p] = "delete_et_pipeline"
    /\ \E ok \in BOOLEAN :
        LET pl == get_et_pipeline(remote, params[p].name)
        IN  IF ~ok
            THEN \* line 161 is outside the try
                 /\ calls' = [calls EXCEPT ![p] =
                        Append(@, Call("list_pipelines", <<>>, FALSE, None, Some(ServiceError)))]
                 /\ result' = [result EXCEPT ![p] = Uncaught(ServiceError)]
                 /\ pc' = [pc EXCEPT ![p] = "done"]
                 /\ UNCHANGED pipeline
            ELSE /\ calls' = [calls EXCEPT ![p] =
                        Append(@, Call("list_pipelines", <<>>, TRUE, None, None))]
                 /\ pipeline' = [pipeline EXCEPT ![p] = pl]
                 /\ IF pl = None
                    THEN /\ result' = [result EXCEPT ![p] = exit_json(FALSE, None, None)]
                         /\ pc' = [pc EXCEPT ![p] = "done"]
                    ELSE /\ pc' = [pc EXCEPT ![p] = "delete_pipeline"]
                         /\ UNCHANGED result
    /\ UNCHANGED <<remote, nextId, params, remote0, prev, runs>>

\* connection.delete_pipeline(Id) and the report: lines 164-167
delete_pipeline(p) ==
    /\ pc[p] = "delete_pipeline"
    /\ \E ok \in BOOLEAN :
        LET pl == pipeline[p][1]
            err == IF HasId(remote, pl.Id) THEN ServiceError ELSE NotFoundError
        IN  IF ok /\ HasId(remote, pl.Id)
            THEN /\ remote' = RemoteDelete(remote, pl.Id)
                 /\ calls' = [calls EXCEPT ![p] =
                        Append(@, Call("delete_pipeline", <<pl.Id>>, TRUE, None, None))]
                 /\ result' = [result EXCEPT ![p] = delete_report(pl)]
            ELSE /\ calls' = [calls EXCEPT ![p] =
                        Append(@, Call("delete_pipeline", <<pl.Id>>, FALSE, None, Some(err)))]
                 /\ result' = [result EXCEPT ![p] = fail_json(err)]
                 /\ UNCHANGED remote
    /\ pc' = [pc EXCEPT ![p] = "done"]
    /\ UNCHANGED <<nextId, params, pipeline, remote0, prev, runs>>

\* one step of the module run by process p
Step(p) ==
    \/ create_et_pipeline(p)
    \/ create_pipeline(p)
    \/ refetch(p)
    \/ update_pipeline(p)
    \/ delete_et_pipeline(p)
    \/ delete_pipeline(p)

\* one task at a time: single-threaded, blocking runs, one after another
Next ==
    \/ Start(1)
    \/ Rerun(1)
    \/ Step(1)

Spec == Init /\ [][Next]_vars

\* two tasks against the same account with nothing ordering their remote calls
InitC ==
    /\ Init
    /\ Len(remote) <= 1

\* the parameters of the concurrent tasks
ParamsC ==
    {ps \in Params :
        \/ /\ ps.state = "present"
           /\ ps.output_bucket = "out1"
           /\ ps.notifications \in {Some(NotifLower), Some(NotifUpper)}
        \/ /\ ps.state = "absent"
           /\ ps.notifications = None}

StartC(p) ==
    /\ pc[p] = "idle"
    /\ \E ps \in ParamsC : main(p, ps)
    /\ UNCHANGED prev

NextC ==
    \E p \in Procs : StartC(p) \/ Step(p)

SpecConc == InitC /\ [][NextC]_vars

----------------------------------------------------------------------------
(* What the properties speak of *)

\* the capitalisation of the service's event kinds: first letter upper case,
\* the others lower case
Capitalized(s) ==
    [i \in 1..Len(s) |-> IF i = 1 THEN ToUpper(s[i]) ELSE ToLower(s[i])]

\* the desired notifications under the service's capitalisation
Normalized(items) ==
    LET ks == {Capitalized(items[i][1]) : i \in 1..Len(items)}
        lastOf(k) == CHOOSE i \in 1..Len(items) :
                        /\ Capitalized(items[i][1]) = k
                        /\ \A j \in (i+1)..Len(items) : Capitalized(items[j][1]) # k
    IN  [k \in ks |-> items[lastOf(k)][2]]

\* where the pipelines of that name stand in a listing
NamedIdx(r, name) == {i \in 1..Len(r) : r[i].Name = name}

FirstIdx(r, name) ==
    CHOOSE i \in NamedIdx(r, name) : \A j \in NamedIdx(r, name) : i <= j

FirstNamed(r, name) == r[FirstIdx(r, name)]

\* the four compared fields of pipeline m are the desired ones
SameFields(m, ps) ==
    /\ m.Role = ps.role
    /\ m.Name = ps.name
    /\ m.InputBucket = ps.input_bucket
    /\ m.Notifications = Normalized(ps.notifications[1])

MutatingOps == {"create_pipeline", "update_pipeline", "delete_pipeline"}

\* the positions in a call log of the calls of these operations
CallsOf(cs, ops) == {i \in 1..Len(cs) : cs[i].op \in ops}

AllOk(cs) == cs # <<>> /\ \A i \in 1..Len(cs) : cs[i].ok

Ops(cs) == [i \in 1..Len(cs) |-> cs[i].op]

\* a run with state=present whose notifications are a mapping
Present(p) == params[p].state = "present" /\ params[p].notifications # None

Absent(p) == params[p].state = "absent"

Started(p) == pc[p] # "idle"

Finished(p) == pc[p] = "done"

Succeeded(res) == res.kind = "exit_json"

\* the first resource of the desired name exists and equals the desired state
MatchesFirst(r, ps) ==
    /\ NamedIdx(r, ps.name) # {}
    /\ SameFields(FirstNamed(r, ps.name), ps)

\* the run of p has created a pipeline
HasCreated(p) ==
    \E i \in 1..Len(calls[p]) : calls[p][i].op = "create_pipeline" /\ calls[p][i].ok

CreatedId(p) ==
    LET i == CHOOSE i \in 1..Len(calls[p]) :
                calls[p][i].op = "create_pipeline" /\ calls[p][i].ok
    IN  calls[p][i].ret[1]

\* the pipeline a create of the desired state ps makes under Id id
Made(id, ps) ==
    [Id |-> id, Name |-> ps.name, Role |-> ps.role, InputBucket |-> ps.input_bucket,
     OutputBucket |-> ps.output_bucket,
     Notifications |-> Normalized(ps.notifications[1])]

----------------------------------------------------------------------------
(* Properties *)

\* C1: a present run repeated with the same desired state straight after a run
\* that succeeded reports changed=false and issues no create and no update; the
\* first run reported changed=true exactly when it issued a create or update,
\* which it did exactly when no resource of the name existed or the first one
\* differed from the desired state.
C1_PresentIdempotent ==
    \A p \in Procs :
        (prev[p] # None /\ Present(p) /\ Succeeded(prev[p][1].result)) =>
            LET first == prev[p][1]
            IN  /\ first.result.changed =
                      Some(CallsOf(first.calls, {"create_pipeline", "update_pipeline"}) # {})
                /\ first.result.changed = Some(~MatchesFirst(first.remote0, first.params))
                /\ CallsOf(calls[p], MutatingOps) = {}
                /\ pc[p] \notin {"create_pipeline", "refetch", "update_pipeline"}
                /\ Succeeded(result[p]) => result[p].changed = Some(FALSE)

C1_Witness ==
    \E p \in Procs :
        /\ prev[p] # None /\ Present(p) /\ Finished(p)
        /\ prev[p][1].result.changed = Some(TRUE)
        /\ CallsOf(prev[p][1].calls, {"create_pipeline"}) # {}
        /\ result[p] = exit_json(FALSE, Some(params[p].name), prev[p][1].result.Id)

\* C2: when the first resource of the desired name has role, name, input_bucket
\* and notifications equal to the desired ones (keys under the service's
\* capitalisation), a present run issues no create and no update, leaves the
\* remote state as it was, and reports changed=false with that resource's id.
C2_EqualIsNoop ==
    \A p \in Procs :
        (Started(p) /\ Present(p) /\ MatchesFirst(remote0[p], params[p])) =>
            /\ pc[p] \notin {"create_pipeline", "refetch", "update_pipeline"}
            /\ CallsOf(calls[p], MutatingOps) = {}
            /\ remote = remote0[p]
            /\ (Finished(p) /\ AllOk(calls[p])) =>
                   result[p] = exit_json(FALSE, Some(params[p].name),
                                         Some(FirstNamed(remote0[p], params[p].name).Id))

C2_Witness ==
    \E p \in Procs :
        /\ Finished(p) /\ Present(p) /\ runs[p] = 1
        /\ params[p].notifications = Some(NotifLower)
        /\ MatchesFirst(remote0[p], params[p])
        /\ Len(remote0[p]) = 2 /\ FirstIdx(remote0[p], params[p].name) = 2
        /\ result[p] = exit_json(FALSE, Some(params[p].name), Some(2))

\* C3: when the first resource of the desired name equals the desired state in
\* role, name, input_bucket and notifications but has another output_bucket, a
\* present run issues no update, reports changed=false, and the resource keeps
\* its output_bucket.
C3_OutputBucketIgnored ==
    \A p \in Procs :
        (/\ Started(p) /\ Present(p) /\ MatchesFirst(remote0[p], params[p])
         /\ FirstNamed(remote0[p], params[p].name).OutputBucket # params[p].output_bucket) =>
            /\ pc[p] # "update_pipeline"
            /\ CallsOf(calls[p], {"update_pipeline"}) = {}
            /\ Succeeded(result[p]) => result[p].changed = Some(FALSE)
            /\ NamedIdx(remote, params[p].name) # {}
            /\ FirstNamed(remote, params[p].name).OutputBucket =
                   FirstNamed(remote0[p], params[p].name).OutputBucket

C3_Witness ==
    \E p \in Procs :
        /\ Finished(p) /\ Present(p) /\ runs[p] = 1
        /\ MatchesFirst(remote0[p], params[p])
        /\ FirstNamed(remote0[p], params[p].name).OutputBucket = "out1"
        /\ params[p].output_bucket = "out2"
        /\ Succeeded(result[p]) /\ result[p].changed = Some(FALSE)

\* C4: when no remote resource has the desired name, an absent run issues no
\* delete, leaves every remote resource as it was, and reports changed=false
\* with no id.
C4_AbsentNothingToDelete ==
    \A p \in Procs :
        (Started(p) /\ Absent(p) /\ NamedIdx(remote0[p], params[p].name) = {}) =>
            /\ pc[p] # "delete_pipeline"
            /\ CallsOf(calls[p], MutatingOps) = {}
            /\ remote = remote0[p]
            /\ (Finished(p) /\ AllOk(calls[p])) => result[p] = exit_json(FALSE, None, None)

C4_Witness ==
    \E p \in Procs :
        /\ Finished(p) /\ Absent(p) /\ runs[p] = 1
        /\ remote0[p] # <<>>
        /\ NamedIdx(remote0[p], params[p].name) = {}
        /\ result[p] = exit_json(FALSE, None, None)

\* C5: a run in which a remote call failed ends as a failure reported through
\* fail_json with the message of the error, the failed call being its last call
\* (nothing called after it, nothing called again), with no success result, and
\* with the remote state untouched when the failed call is the update.
C5_FailureReported ==
    \A p \in Procs :
        \A i \in 1..Len(calls[p]) :
            (Finished(p) /\ ~calls[p][i].ok) =>
                /\ i = Len(calls[p])
                /\ ~Succeeded(result[p])
                /\ result[p].kind = "fail_json"
                /\ result[p].msg = calls[p][i].err
                /\ calls[p][i].op = "update_pipeline" => remote = remote0[p]

\* C6 as stated: after an absent run that succeeded no resource of the name is
\* left, whatever the remote state was, so that the run repeated straight after
\* it issues no delete and reports changed=false.
C6_AbsentIdempotentAnyRemote ==
    \A p \in Procs :
        (prev[p] # None /\ Absent(p) /\ Succeeded(prev[p][1].result)) =>
            /\ NamedIdx(remote0[p], params[p].name) = {}
            /\ pc[p] # "delete_pipeline"
            /\ CallsOf(calls[p], MutatingOps) = {}
            /\ Succeeded(result[p]) => result[p].changed = Some(FALSE)

\* C6 amended: an absent run that succeeded has deleted the first resource of
\* the name and no other, so that when at most one resource had the name before
\* it none is left and the run repeated straight after it issues no delete and
\* reports changed=false.
C6_AbsentIdempotentUniqueName ==
    \A p \in Procs :
        (prev[p] # None /\ Absent(p) /\ Succeeded(prev[p][1].result)) =>
            LET first == prev[p][1]
                before == NamedIdx(first.remote0, params[p].name)
            IN  /\ remote0[p] =
                      IF before = {} THEN first.remote0
                      ELSE RemoteDelete(first.remote0,
                                        FirstNamed(first.remote0, params[p].name).Id)
                /\ Cardinality(before) <= 1 =>
                      /\ NamedIdx(remote0[p], params[p].name) = {}
                      /\ pc[p] # "delete_pipeline"
                      /\ CallsOf(calls[p], MutatingOps) = {}
                      /\ Succeeded(result[p]) => result[p].changed = Some(FALSE)

C6_Witness ==
    \E p \in Procs :
        /\ prev[p] # None /\ Absent(p) /\ Finished(p)
        /\ Cardinality(NamedIdx(prev[p][1].remote0, params[p].name)) = 1
        /\ Len(prev[p][1].remote0) = 2
        /\ prev[p][1].result.changed = Some(TRUE)
        /\ result[p] = exit_json(FALSE, None, None)

\* C7, duplicate create: when two concurrent present runs for one name have
\* each created, and no run has deleted, the remote state holds both pipelines
\* under different ids, each as its run desired it.
C7_BothCreatesStand ==
    \A p, q \in Procs :
        (/\ p # q /\ HasCreated(p) /\ HasCreated(q)
         /\ params[p].name = params[q].name
         /\ \A o \in Procs : \A i \in CallsOf(calls[o], {"delete_pipeline"}) : ~calls[o][i].ok) =>
            /\ CreatedId(p) # CreatedId(q)
            /\ \E i \in 1..Len(remote) : remote[i] = Made(CreatedId(p), params[p])
            /\ Cardinality(NamedIdx(remote, params[p].name)) >= 2

\* C7, last writer wins: an update that is applied leaves the pipeline with the
\* four fields its run desired, whatever another run wrote there before.
C7_UpdateOverwrites ==
    \A p \in Procs :
        (pc[p] = "update_pipeline" /\ Succeeded(result'[p])) =>
            \E i \in 1..Len(remote') :
                /\ remote'[i].Id = pipeline[p][1].Id
                /\ SameFields(remote'[i], params[p])

\* C7: nothing orders the remote calls of concurrent runs: two creates for one
\* name both take effect, and of two updates the one applied last stands.
C7_NoLocking == [](C7_BothCreatesStand) /\ [][C7_UpdateOverwrites]_vars

C7_Witness ==
    /\ HasCreated(1) /\ HasCreated(2)
    /\ \A p \in Procs : Present(p) /\ NamedIdx(remote0[p], params[p].name) = {}
    /\ params[1].name = params[2].name
    /\ Cardinality(NamedIdx(remote, params[1].name)) = 2

\* C8: when the first resource of the desired name differs from the desired
\* state in role, input_bucket or notifications, a present run issues no create
\* and at most one update, addressed to that resource's id and carrying
\* (id, name, input_bucket, role, notifications under the service's
\* capitalisation) and no output_bucket; ids and output_buckets stay as they
\* were, every other resource is untouched, and a run whose calls all succeed
\* has issued the update and reports changed=true with that id.
C8_UpdateFirstMatch ==
    \A p \in Procs :
        (/\ Started(p) /\ Present(p)
         /\ NamedIdx(remote0[p], params[p].name) # {}
         /\ ~SameFields(FirstNamed(remote0[p], params[p].name), params[p])) =>
            LET ps == params[p]
                k == FirstIdx(remote0[p], ps.name)
                m == remote0[p][k]
                upd == CallsOf(calls[p], {"update_pipeline"})
            IN  /\ pc[p] \notin {"create_pipeline", "refetch"}
                /\ CallsOf(calls[p], {"create_pipeline", "delete_pipeline"}) = {}
                /\ Cardinality(upd) <= 1
                /\ \A i \in upd :
                      calls[p][i].args = <<m.Id, ps.name, ps.input_bucket, ps.role,
                                           Normalized(ps.notifications[1])>>
                /\ Len(remote) = Len(remote0[p])
                /\ \A j \in 1..Len(remote) :
                      /\ remote[j].Id = remote0[p][j].Id
                      /\ remote[j].OutputBucket = remote0[p][j].OutputBucket
                      /\ j # k => remote[j] = remote0[p][j]
                /\ (Finished(p) /\ AllOk(calls[p])) =>
                      /\ Ops(calls[p]) = <<"list_pipelines", "update_pipeline">>
                      /\ result[p] = exit_json(TRUE, Some(ps.name), Some(m.Id))
                      /\ SameFields(remote[k], ps)

C8_Witness ==
    \E p \in Procs :
        /\ Finished(p) /\ Present(p) /\ runs[p] = 1
        /\ Cardinality(NamedIdx(remote0[p], params[p].name)) = 2
        /\ ~SameFields(FirstNamed(remote0[p], params[p].name), params[p])
        /\ params[p].output_bucket # FirstNamed(remote0[p], params[p].name).OutputBucket
        /\ Ops(calls[p]) = <<"list_pipelines", "update_pipeline">>
        /\ Succeeded(result[p]) /\ result[p].changed = Some(TRUE)
        /\ remote # remote0[p]

\* C9: when no remote resource has the desired name, a present run issues no
\* update and at most one create, carrying (name, input_bucket, output_bucket,
\* role, notifications under the service's capitalisation); a run whose calls
\* all succeed has listed, created, listed again, added exactly the desired
\* pipeline, and reports changed=true with the name and the id the service
\* gave to the pipeline it created.
C9_CreateWhenMissing ==
    \A p \in Procs :
        (Started(p) /\ Present(p) /\ NamedIdx(remote0[p], params[p].name) = {}) =>
            LET ps == params[p]
                crt == CallsOf(calls[p], {"create_pipeline"})
            IN  /\ pc[p] # "update_pipeline"
                /\ CallsOf(calls[p], {"update_pipeline", "delete_pipeline"}) = {}
                /\ Cardinality(crt) <= 1
                /\ \A i \in crt :
                      calls[p][i].args = <<ps.name, ps.input_bucket, ps.output_bucket,
                                           ps.role, Normalized(ps.notifications[1])>>
                /\ (Finished(p) /\ AllOk(calls[p])) =>
                      /\ Ops(calls[p]) = <<"list_pipelines", "create_pipeline", "list_pipelines">>
                      /\ ~HasId(remote0[p], CreatedId(p))
                      /\ remote = Append(remote0[p], Made(CreatedId(p), ps))
                      /\ result[p] = exit_json(TRUE, Some(ps.name), Some(CreatedId(p)))

C9_Witness ==
    \E p \in Procs :
        /\ Finished(p) /\ Present(p) /\ runs[p] = 1
        /\ remote0[p] # <<>>
        /\ NamedIdx(remote0[p], params[p].name) = {}
        /\ params[p].notifications = Some(NotifLower)
        /\ HasCreated(p)
        /\ result[p] = exit_json(TRUE, Some(params[p].name), Some(CreatedId(p)))

\* C10: a run issues at most one mutating call (create, update or delete); a
\* success result has changed=true exactly when that call was issued and
\* succeeded, and a run that reports changed=false has issued none.
C10_OneMutation ==
    \A p \in Procs :
        LET mut == CallsOf(calls[p], MutatingOps)
        IN  /\ Cardinality(mut) <= 1
            /\ Succeeded(result[p]) =>
                  /\ result[p].changed = Some(\E i \in mut : calls[p][i].ok)
                  /\ result[p].changed = Some(FALSE) => mut = {}

C10_Witness ==
    \E p \in Procs :
        /\ Finished(p) /\ Absent(p)
        /\ Ops(calls[p]) = <<"list_pipelines", "delete_pipeline">>
        /\ Succeeded(result[p]) /\ result[p].changed = Some(TRUE)
        /\ Len(remote) < Len(remote0[p])

====
